---- MODULE Spec2Model ----
(***************************************************************************)
(* pc_limiter: the poll loop of PCLimiterApp (main.py), the process        *)
(* inspector and the usage ledger (monitor.py), the message generator      *)
(* with its rotating fallback (llm_client.py) and the full-screen overlay  *)
(* (overlay.py).                                                           *)
(*                                                                         *)
(* Time is in seconds.  An instant is the number of seconds since          *)
(* midnight of day 0; its calendar date is the day number and its time of  *)
(* day the seconds since that day's midnight.                              *)
(***************************************************************************)
EXTENDS Integers, Sequences, FiniteSets, TLC

\* ------------------------------------------------------------------ bounds
\* Most rows the usage table holds in a run.
MaxLedger == 2
\* Most midnights that pass when the ledger is followed alone.
MaxDays == 1
\* Most fallback messages a run of the generator hands out.
MaxFallbacks == 6

\* --------------------------------------------------------------- constants
\* main.py: self._intervention_cooldown = 60
intervention_cooldown == 60
\* overlay.py: COUNTDOWN_SECONDS = 5
COUNTDOWN_SECONDS == 5
\* monitor.py: SUBPROCESS_TIMEOUT = 5; the longest one inspection call may
\* hold the polling thread, hence the lag between two clock reads of a tick.
SUBPROCESS_TIMEOUT == 5

DayLen == 24 * 3600
\* The instant the application starts: 23:59:00 of day 0.
Boot == DayLen - 60
\* The instants the clock is read at between handlers: just before and at the
\* end of a cooldown that began at the start; the latter is midnight.
Instants == {Boot + k : k \in {55, 60}}
NoTime == 0 - 1
NoName == "<none>"

Date(t) == t \div DayLen
TimeOfDay(t) == t % DayLen

\* ------------------------------------------------------------------ names
\* str.lower() on the process names the model uses; a name that is not
\* listed is already lower-case.
LowerTable ==
  [n \in {"APP.EXE", "Chrome.EXE", "EXPLORER.EXE", "Unknown", "System"} |->
     CASE n = "APP.EXE" -> "app.exe"
       [] n = "Chrome.EXE" -> "chrome.exe"
       [] n = "EXPLORER.EXE" -> "explorer.exe"
       [] n = "Unknown" -> "unknown"
       [] n = "System" -> "system"]

Lower(n) == IF n \in DOMAIN LowerTable THEN LowerTable[n] ELSE n

\* str.strip() on the strings the model uses: "  " is all whitespace.
Strip(s) == IF s = "  " THEN "" ELSE s

Min(S) == CHOOSE x \in S : \A y \in S : x <= y

\* ------------------------------------------------------------------ state
VARIABLES
  config,                  \* AppConfig: read once, never written
  now,                     \* the wall clock
  overlay_active,          \* PCLimiterApp._overlay_active
  last_intervention_time,  \* PCLimiterApp._last_intervention_time
  usage_log,               \* rows of table usage_log, in insertion order
  client_ok,               \* OllamaClient._client is not None
  fallback_index,          \* OllamaClient._fallback_index
  overlay,                 \* FullScreenOverlay's fields
  pending_shows,           \* show_message calls since the last overlay_closed
  obs                      \* what the last handler did

vars ==
  <<config, now, overlay_active, last_intervention_time, usage_log,
    client_ok, fallback_index, overlay, pending_shows, obs>>

\* ----------------------------------------------------- monitor.py: inspector
\* Outcomes of powershell.exe for get_active_window: the tool fails (timeout,
\* non-zero exit, missing binary), prints nothing, or prints one line.
PsOutcomes ==
  { [status |-> "timeout", name |-> NoName],
    [status |-> "ok", name |-> "app.exe"],
    [status |-> "ok", name |-> "Unknown"] }

\* Outcomes of tasklist.exe for get_running_processes: the names of the rows.
TasklistOutcomes ==
  { [status |-> "timeout", names |-> {}],
    [status |-> "ok", names |-> {"app.exe"}],
    [status |-> "ok", names |-> {"app.exe", "Chrome.EXE"}],
    [status |-> "ok", names |-> {"chrome.exe", "explorer.exe"}] }

\* Outcomes of taskkill.exe: exit code 0 or anything else.
TaskkillOutcomes == {"ok", "failed"}

\* get_active_window: the sample's process name, NoName for None.
GetActiveWindow(ps) ==
  IF ps.status # "ok" THEN NoName ELSE ps.name

\* get_running_processes: the names listed, nothing when the tool failed.
GetRunningProcesses(tl) ==
  IF tl.status # "ok" THEN {} ELSE tl.names

\* kill_process: the protected set, written in lower case.
protected ==
  {"csrss.exe", "wininit.exe", "services.exe", "lsass.exe", "svchost.exe",
   "explorer.exe", "dwm.exe", "winlogon.exe", "smss.exe", "system"}

\* Mutant of IsProtected: the name is not lower-cased.
IsProtectedCaseSensitive(process_name) == process_name \in protected

\* kill_process's guard on protected names.
IsProtected(process_name) == Lower(process_name) \in protected

\* kill_process: whether taskkill.exe was run, and the value returned.
KillProcess(process_name, tk) ==
  IF process_name = "" \/ Strip(process_name) = ""
  THEN [invoked |-> FALSE, result |-> FALSE]
  ELSE IF IsProtected(process_name)
  THEN [invoked |-> FALSE, result |-> FALSE]
  ELSE [invoked |-> TRUE, result |-> (tk = "ok")]

\* ------------------------------------------------------ monitor.py: ledger
RECURSIVE SumDurations(_)
SumDurations(rows) ==
  IF rows = <<>> THEN 0
  ELSE Head(rows).duration_sec + SumDurations(Tail(rows))

\* Mutant of UsageRowMatches: the names are compared as they are spelled.
UsageRowMatchesCaseSensitive(row, today, process_name) ==
  row.date = today /\ row.process_name = process_name

\* Mutant of UsageRowMatches: the date is not compared.
UsageRowMatchesAnyDay(row, today, process_name) ==
  Lower(row.process_name) = Lower(process_name)

\* The WHERE clause of get_usage_today.
UsageRowMatches(row, today, process_name) ==
  row.date = today /\ Lower(row.process_name) = Lower(process_name)

\* Mutant of InitDb: the table is created anew.
InitDbRecreates(log) == <<>>

\* _init_db on a store that holds the table: CREATE TABLE IF NOT EXISTS and
\* CREATE INDEX IF NOT EXISTS leave the rows as they are.
InitDb(log) == log

\* record_usage at instant t; a sqlite3.Error (ok = FALSE) drops the row.
RecordUsage(log, process_name, duration_sec, t, ok) ==
  IF ok
  THEN Append(log, [date |-> Date(t), process_name |-> process_name,
                    duration_sec |-> duration_sec])
  ELSE log

\* Mutant of GetUsageToday: the sum is returned also after an error.
GetUsageTodayDespiteError(log, process_name, t, ok) ==
  SumDurations(SelectSeq(log,
    LAMBDA row : UsageRowMatches(row, Date(t), process_name)))

\* get_usage_today at instant t; a sqlite3.Error (ok = FALSE) yields 0.
GetUsageToday(log, process_name, t, ok) ==
  IF ok
  THEN SumDurations(SelectSeq(log,
         LAMBDA row : UsageRowMatches(row, Date(t), process_name)))
  ELSE 0

\* ------------------------------------------------------------ llm_client.py
FALLBACK_MESSAGES ==
  <<"fallback-0", "fallback-1", "fallback-2", "fallback-3", "fallback-4">>

\* What self._client.chat does: it raises, or returns this content.
ChatOutcomes == {"<raise>", "  ", "generated"}

\* Mutant of GetFallback: the index is not reduced modulo the length of the
\* list; past the end the last entry is returned.
GetFallbackNoWrap(index) ==
  FALLBACK_MESSAGES[Min({index, Len(FALLBACK_MESSAGES) - 1}) + 1]

\* _get_fallback: the message returned (the index advances by one).
GetFallback(index) == FALLBACK_MESSAGES[(index % Len(FALLBACK_MESSAGES)) + 1]

\* Mutant of UsesFallback: an empty answer is returned as it is.
UsesFallbackUnlessEmpty(chat) ==
  \/ ~client_ok
  \/ chat = "<raise>"

\* generate_scolding: whether the answer is the fallback.
UsesFallback(chat) ==
  \/ ~client_ok
  \/ chat = "<raise>"
  \/ Strip(chat) = ""

\* generate_scolding: the message returned.
GenerateScolding(chat) ==
  IF UsesFallback(chat) THEN GetFallback(fallback_index) ELSE Strip(chat)

\* --------------------------------------------------------------- overlay.py
OverlayInit ==
  [visible |-> FALSE, countdown |-> COUNTDOWN_SECONDS, is_locked |-> TRUE,
   timer_active |-> FALSE, message |-> "none"]

\* Mutant of ShowMessage: the countdown and the lock are left as they are.
ShowMessageKeepsLock(scolding_text) ==
  [visible |-> TRUE, countdown |-> overlay.countdown,
   is_locked |-> overlay.is_locked, timer_active |-> TRUE,
   message |-> IF scolding_text # <<>> THEN "given" ELSE "built-in"]

\* show_message: the label shows the text given or, for an empty one, the
\* built-in text.
ShowMessage(scolding_text) ==
  [visible |-> TRUE, countdown |-> COUNTDOWN_SECONDS, is_locked |-> TRUE,
   timer_active |-> TRUE,
   message |-> IF scolding_text # <<>> THEN "given" ELSE "built-in"]

\* ------------------------------------------------------------------ main.py
NoViolation ==
  [kind |-> "None", name |-> NoName, hours |-> 0, minutes |-> 0,
   curfew |-> <<>>]

\* strftime('%H:%M') of a time of day.
FormatHM(t) == <<t \div 3600, (t % 3600) \div 60>>

CurfewViolation ==
  [kind |-> "Curfew", name |-> NoName, hours |-> 0, minutes |-> 0,
   curfew |-> <<FormatHM(config.curfew_start), FormatHM(config.curfew_end)>>]

BlacklistViolation(app_name) ==
  [kind |-> "Blacklist", name |-> app_name, hours |-> 0, minutes |-> 0,
   curfew |-> <<>>]

UsageViolation(process_name, usage) ==
  [kind |-> "UsageExceeded", name |-> process_name,
   hours |-> usage \div 3600, minutes |-> (usage % 3600) \div 60,
   curfew |-> <<>>]

\* Mutant of PollSkips: the guard is missing.
PollSkipsNever == FALSE

\* _poll: the guard that skips a tick.
PollSkips == overlay_active

\* Mutant of Records: a sample named Unknown is recorded too.
RecordsUnknownToo(active) == active # NoName /\ active # ""

\* Mutant of Records: a missing sample is recorded too.
RecordsWithoutSample(active) == active # "" /\ active # "Unknown"

\* _poll: whether the first sample is recorded.
Records(active) == active # NoName /\ active # "" /\ active # "Unknown"

\* Mutant of CooldownSuppresses: the cooldown test is missing.
CooldownSuppressesNever(t) == FALSE

\* Mutant of CooldownSuppresses: <= for <.
CooldownSuppressesInclusive(t) ==
  /\ last_intervention_time # NoTime
  /\ t - last_intervention_time <= intervention_cooldown

\* _check_violations: the cooldown test at instant t.
CooldownSuppresses(t) ==
  /\ last_intervention_time # NoTime
  /\ t - last_intervention_time < intervention_cooldown

\* Mutant of IsCurfewTime: the wrapping window tested with AND.
IsCurfewTimeAnd(current) ==
  LET start == config.curfew_start
      end == config.curfew_end
  IN IF start <= end
     THEN start <= current /\ current <= end
     ELSE current >= start /\ current <= end

\* _is_curfew_time
IsCurfewTime(current) ==
  LET start == config.curfew_start
      end == config.curfew_end
  IN IF start <= end
     THEN start <= current /\ current <= end
     ELSE current >= start \/ current <= end

\* Mutant of CurfewFires: curfew_blocks_all is not consulted.
CurfewFiresAlways(t) == IsCurfewTime(TimeOfDay(t))

\* Mutant of CurfewFires: the curfew_blocks_all test is inverted.
CurfewFiresUnlessBlocksAll(t) ==
  IsCurfewTime(TimeOfDay(t)) /\ ~config.curfew_blocks_all

\* _check_violations: the curfew check.
CurfewFires(t) == IsCurfewTime(TimeOfDay(t)) /\ config.curfew_blocks_all

\* Mutant of FirstBlacklisted: the last matching entry.
FirstBlacklistedLast(processes) ==
  LET running_names == {Lower(p) : p \in processes}
      hits == {i \in 1..Len(config.blacklist) :
                 Lower(config.blacklist[i]) \in running_names}
  IN IF hits = {} THEN NoName
     ELSE config.blacklist[CHOOSE i \in hits : \A j \in hits : j <= i]

\* Mutant of FirstBlacklisted: the first entry, whatever is running.
FirstBlacklistedUnlisted(processes) ==
  IF config.blacklist = <<>> THEN NoName ELSE config.blacklist[1]

\* Mutant of FirstBlacklisted: the names are compared as they are spelled.
FirstBlacklistedCaseSensitive(processes) ==
  LET hits == {i \in 1..Len(config.blacklist) :
                 config.blacklist[i] \in processes}
  IN IF hits = {} THEN NoName ELSE config.blacklist[Min(hits)]

\* _check_violations: the first blacklist entry, in blacklist order, whose
\* lower-case form is among the lower-cased running names; NoName if none.
FirstBlacklisted(processes) ==
  LET running_names == {Lower(p) : p \in processes}
      hits == {i \in 1..Len(config.blacklist) :
                 Lower(config.blacklist[i]) \in running_names}
  IN IF hits = {} THEN NoName ELSE config.blacklist[Min(hits)]

\* Mutant of ExceedsCap: >= for >.
ExceedsCapInclusive(usage) == usage >= config.max_usage_seconds

\* _check_violations: the usage-cap comparison.
ExceedsCap(usage) == usage > config.max_usage_seconds

\* Mutant of CheckViolations: the function returns after the blacklist
\* check; the foreground is not sampled again.
CheckViolationsSamplesOnce(log, t, tl, tk, ps, rd, t2) ==
  LET quiet ==
        [violation |-> NoViolation, suppressed |-> FALSE, listed |-> FALSE,
         running |-> {}, kill |-> NoName, taskkill |-> FALSE,
         kill_result |-> FALSE, fg2_called |-> FALSE, fg2 |-> NoName,
         queried |-> NoName, read_error |-> FALSE, usage |-> 0]
      processes == GetRunningProcesses(tl)
      app_name == FirstBlacklisted(processes)
      killed == KillProcess(app_name, tk)
  IN IF CooldownSuppresses(t)
     THEN [quiet EXCEPT !.suppressed = TRUE]
     ELSE IF CurfewFires(t)
     THEN [quiet EXCEPT !.violation = CurfewViolation]
     ELSE IF app_name # NoName
     THEN [quiet EXCEPT !.listed = TRUE, !.running = processes,
                        !.kill = app_name, !.taskkill = killed.invoked,
                        !.kill_result = killed.result,
                        !.violation = BlacklistViolation(app_name)]
     ELSE [quiet EXCEPT !.listed = TRUE, !.running = processes]

\* _check_violations run at instant t on table log.  What the environment
\* answers: tl (tasklist.exe), tk (taskkill.exe), ps (powershell.exe), rd (the
\* SELECT succeeds); t2 is the instant of the usage query, after the
\* inspection calls.  The result says which calls were made and the value
\* returned.
CheckViolations(log, t, tl, tk, ps, rd, t2) ==
  LET quiet ==
        [violation |-> NoViolation, suppressed |-> FALSE, listed |-> FALSE,
         running |-> {}, kill |-> NoName, taskkill |-> FALSE,
         kill_result |-> FALSE, fg2_called |-> FALSE, fg2 |-> NoName,
         queried |-> NoName, read_error |-> FALSE, usage |-> 0]
      processes == GetRunningProcesses(tl)
      app_name == FirstBlacklisted(processes)
      killed == KillProcess(app_name, tk)
      active == GetActiveWindow(ps)
      usage == GetUsageToday(log, active, t2, rd)
  IN IF CooldownSuppresses(t)
     THEN [quiet EXCEPT !.suppressed = TRUE]
     ELSE IF CurfewFires(t)
     THEN [quiet EXCEPT !.violation = CurfewViolation]
     ELSE IF app_name # NoName
     THEN [quiet EXCEPT !.listed = TRUE, !.running = processes,
                        !.kill = app_name, !.taskkill = killed.invoked,
                        !.kill_result = killed.result,
                        !.violation = BlacklistViolation(app_name)]
     ELSE IF active # NoName /\ active # ""
     THEN [quiet EXCEPT !.listed = TRUE, !.running = processes,
                        !.fg2_called = TRUE, !.fg2 = active,
                        !.queried = active, !.read_error = ~rd,
                        !.usage = usage,
                        !.violation = IF ExceedsCap(usage)
                                      THEN UsageViolation(active, usage)
                                      ELSE NoViolation]
     ELSE [quiet EXCEPT !.listed = TRUE, !.running = processes,
                        !.fg2_called = TRUE]

\* obs after a handler that is not _poll.
Idle ==
  [op |-> "idle", skipped |-> FALSE, fg1_called |-> FALSE, fg1 |-> NoName,
   write_error |-> FALSE, recorded |-> FALSE, evaluated |-> FALSE,
   t_check |-> NoTime,
   check |-> [violation |-> NoViolation, suppressed |-> FALSE,
              listed |-> FALSE, running |-> {}, kill |-> NoName,
              taskkill |-> FALSE, kill_result |-> FALSE,
              fg2_called |-> FALSE, fg2 |-> NoName, queried |-> NoName,
              read_error |-> FALSE, usage |-> 0],
   triggered |-> FALSE, chat |-> "<unused>", used_fallback |-> FALSE,
   scolding |-> "", shown |-> <<>>, arg |-> NoName, result |-> 0,
   fault |-> "none"]

\* The answers of the environment that a tick can read, given what it has
\* read so far: an answer the path taken never reads is held at one value, so
\* that one behaviour of the program is one transition.
NoPs == [status |-> "timeout", name |-> NoName]

NoTasklist == [status |-> "timeout", names |-> {}]

\* _check_violations gets as far as the process listing.
ReachesListing ==
  ~PollSkips /\ ~CooldownSuppresses(now) /\ ~CurfewFires(now)

Ps1Answers == IF PollSkips THEN {NoPs} ELSE PsOutcomes

WriteAnswers(ps1) ==
  IF ~PollSkips /\ Records(GetActiveWindow(ps1)) THEN BOOLEAN ELSE {TRUE}

TasklistAnswers == IF ReachesListing THEN TasklistOutcomes ELSE {NoTasklist}

\* The inspection calls return at once or hold the thread for a timeout; the
\* latter is followed where it ends on an instant of Instants.
LagAnswers ==
  IF ReachesListing /\ now + SUBPROCESS_TIMEOUT \in Instants
  THEN {0, SUBPROCESS_TIMEOUT} ELSE {0}

TaskkillAnswers(tl) ==
  IF /\ ReachesListing
     /\ KillProcess(FirstBlacklisted(GetRunningProcesses(tl)), "ok").invoked
  THEN TaskkillOutcomes ELSE {"ok"}

Ps2Answers(tl) ==
  IF ReachesListing /\ FirstBlacklisted(GetRunningProcesses(tl)) = NoName
  THEN PsOutcomes ELSE {NoPs}

ReadAnswers(ps2) ==
  IF GetActiveWindow(ps2) # NoName THEN BOOLEAN ELSE {TRUE}

ChatAnswers(violated) ==
  IF violated /\ client_ok THEN ChatOutcomes ELSE {"generated"}

\* _trigger_intervention at instant t, and what _poll leaves behind.  The
\* generator is asked once; get_formatted_summary only reads the table.
Finish(active, wr, log1, tr, t, chat) ==
  LET violated == tr.violation.kind # "None"
      fallback == violated /\ UsesFallback(chat)
      scolding == GenerateScolding(chat)
      display_text == <<tr.violation, scolding>>
  IN /\ Len(log1) <= MaxLedger
     /\ fallback => fallback_index < MaxFallbacks
     /\ usage_log' = log1
     /\ now' = t
     /\ overlay_active' = IF violated THEN TRUE ELSE overlay_active
     /\ last_intervention_time' =
          IF violated THEN t ELSE last_intervention_time
     /\ fallback_index' =
          IF fallback THEN fallback_index + 1 ELSE fallback_index
     /\ overlay' = IF violated THEN ShowMessage(display_text) ELSE overlay
     /\ pending_shows' =
          IF violated THEN pending_shows + 1 ELSE pending_shows
     /\ obs' = [op |-> "poll", skipped |-> PollSkips,
                fg1_called |-> ~PollSkips,
                fg1 |-> IF PollSkips THEN NoName ELSE active,
                write_error |-> ~wr,
                recorded |-> (log1 # usage_log),
                evaluated |-> ~PollSkips,
                t_check |-> IF PollSkips THEN NoTime ELSE now,
                check |-> tr,
                triggered |-> violated,
                chat |-> IF violated /\ client_ok THEN chat ELSE "<unused>",
                used_fallback |-> fallback,
                scolding |-> IF violated THEN scolding ELSE "",
                shown |-> IF violated THEN display_text ELSE <<>>,
                arg |-> NoName, result |-> 0, fault |-> "none"]
     /\ UNCHANGED <<config, client_ok>>

\* _poll, with _check_violations and _trigger_intervention.
Poll ==
  \E ps1 \in Ps1Answers :
  \E wr \in WriteAnswers(ps1) :
  \E tl \in TasklistAnswers :
  \E lag \in LagAnswers :
  \E tk \in TaskkillAnswers(tl) :
  \E ps2 \in Ps2Answers(tl) :
  \E rd \in ReadAnswers(ps2) :
    LET active == GetActiveWindow(ps1)
        records == ~PollSkips /\ Records(active)
        log1 == IF records
                THEN RecordUsage(usage_log, active, config.poll_interval,
                                 now, wr)
                ELSE usage_log
        tr == IF PollSkips
              THEN Idle.check
              ELSE CheckViolations(log1, now, tl, tk, ps2, rd, now + lag)
        t_trigger == IF tr.listed THEN now + lag ELSE now
    IN \E chat \in ChatAnswers(tr.violation.kind # "None") :
         Finish(active, wr, log1, tr, t_trigger, chat)

\* Where a statement of a tick raises an exception that no callee catches
\* (the inspector and the generator catch every Exception, the ledger only
\* sqlite3.Error): in record_usage before the INSERT, in _check_violations
\* before the first check, in _trigger_intervention after its two
\* assignments and before the generator is asked.
FaultPoints == {"record", "check", "trigger"}

\* The except clause of _poll: the exception raised at point is logged and
\* the handler returns; what the tick did before it stays done.
FinishFault(point, active, wr, log1, tr, t) ==
  /\ Len(log1) <= MaxLedger
  /\ usage_log' = log1
  /\ now' = t
  /\ overlay_active' = IF point = "trigger" THEN TRUE ELSE overlay_active
  /\ last_intervention_time' =
       IF point = "trigger" THEN t ELSE last_intervention_time
  /\ obs' = [Idle EXCEPT !.op = "poll_fault", !.fault = point,
                         !.fg1_called = TRUE, !.fg1 = active,
                         !.write_error = ~wr,
                         !.recorded = (log1 # usage_log),
                         !.evaluated = (point = "trigger"),
                         !.t_check = IF point = "trigger" THEN now ELSE NoTime,
                         !.check = tr,
                         !.triggered = (point = "trigger")]
  /\ UNCHANGED <<config, client_ok, fallback_index, overlay, pending_shows>>

\* _poll when a statement inside its try block raises.
PollFault ==
  /\ ~PollSkips
  /\ \E ps1 \in Ps1Answers :
       LET active == GetActiveWindow(ps1)
       IN \/ /\ Records(active)
             /\ FinishFault("record", active, TRUE, usage_log, Idle.check,
                            now)
          \/ \E wr \in WriteAnswers(ps1) :
               LET log1 == IF Records(active)
                           THEN RecordUsage(usage_log, active,
                                            config.poll_interval, now, wr)
                           ELSE usage_log
               IN \/ FinishFault("check", active, wr, log1, Idle.check, now)
                  \/ \E tl \in TasklistAnswers :
                     \E lag \in LagAnswers :
                     \E tk \in TaskkillAnswers(tl) :
                     \E ps2 \in Ps2Answers(tl) :
                     \E rd \in ReadAnswers(ps2) :
                       LET tr == CheckViolations(log1, now, tl, tk, ps2, rd,
                                                 now + lag)
                           t_trigger == IF tr.listed THEN now + lag ELSE now
                       IN /\ tr.violation.kind # "None"
                          /\ FinishFault("trigger", active, wr, log1, tr,
                                         t_trigger)

\* Mutant of OnOverlayClosed: the flag is left set.
OnOverlayClosedKeepsFlag == TRUE

\* _on_overlay_closed, connected to the overlay_closed signal: the new value
\* of _overlay_active.
OnOverlayClosed == FALSE

\* overlay.py _on_close: hide, then emit overlay_closed (a direct call of
\* _on_overlay_closed).
OnClose ==
  /\ overlay' = [overlay EXCEPT !.visible = FALSE]
  /\ overlay_active' = OnOverlayClosed
  /\ pending_shows' = 0
  /\ obs' = [Idle EXCEPT !.op = "overlay_closed"]
  /\ UNCHANGED <<config, now, last_intervention_time, usage_log, client_ok,
                 fallback_index>>

\* overlay.py _tick, fired by the countdown timer while it runs.
OverlayTick ==
  /\ overlay.timer_active
  /\ LET c == overlay.countdown - 1
     IN overlay' = IF c <= 0
                   THEN [overlay EXCEPT !.countdown = c,
                                        !.timer_active = FALSE,
                                        !.is_locked = FALSE]
                   ELSE [overlay EXCEPT !.countdown = c]
  /\ obs' = Idle
  /\ UNCHANGED <<config, now, overlay_active, last_intervention_time,
                 usage_log, client_ok, fallback_index, pending_shows>>

\* The close button is clicked; _unlock shows it, show_message hides it.
CloseClick ==
  /\ overlay.visible /\ ~overlay.is_locked
  /\ OnClose

\* Mutant of KeyPress: the key reaches the overlay also when it is hidden.
KeyPressWhenHidden ==
  \E key \in {"Escape", "other"} :
    IF ~overlay.is_locked /\ key = "Escape"
    THEN OnClose
    ELSE /\ obs' = Idle
         /\ UNCHANGED <<config, now, overlay_active,
                        last_intervention_time, usage_log, client_ok,
                        fallback_index, overlay, pending_shows>>

\* keyPressEvent on the shown overlay: ignored while locked, Escape closes.
KeyPress ==
  /\ overlay.visible
  /\ \E key \in {"Escape", "other"} :
       IF ~overlay.is_locked /\ key = "Escape"
       THEN OnClose
       ELSE /\ obs' = Idle
            /\ UNCHANGED <<config, now, overlay_active,
                           last_intervention_time, usage_log, client_ok,
                           fallback_index, overlay, pending_shows>>

\* closeEvent on the shown overlay: ignored while locked, else the window
\* closes and no signal is emitted.
CloseEvent ==
  /\ overlay.visible
  /\ overlay' = IF overlay.is_locked THEN overlay
                ELSE [overlay EXCEPT !.visible = FALSE]
  /\ obs' = Idle
  /\ UNCHANGED <<config, now, overlay_active, last_intervention_time,
                 usage_log, client_ok, fallback_index, pending_shows>>

\* UsageTracker() is constructed again on the store in use (the application
\* is started a second time): _init_db runs on the existing table.
ReopenStore ==
  /\ usage_log' = InitDb(usage_log)
  /\ obs' = [Idle EXCEPT !.op = "init_db"]
  /\ UNCHANGED <<config, now, overlay_active, last_intervention_time,
                 client_ok, fallback_index, overlay, pending_shows>>

\* Time passes between two handlers, to a later instant of Instants.
Advance ==
  \E t \in Instants :
    /\ t > now
    /\ now' = t
    /\ obs' = Idle
    /\ UNCHANGED <<config, overlay_active, last_intervention_time, usage_log,
                   client_ok, fallback_index, overlay, pending_shows>>

\* ------------------------------------------------------------ configuration
AppConfig(b, start, end, m, a) ==
  [blacklist |-> b, curfew_start |-> start, curfew_end |-> end,
   max_usage_seconds |-> m, poll_interval |-> 5, curfew_blocks_all |-> a]

\* The table as a previous run left it: empty, or one row of today.
StoredLogs ==
  { <<>>,
    <<[date |-> Date(Boot), process_name |-> "APP.EXE",
       duration_sec |-> 7295]>> }

\* The installations followed: a configuration, the stored tables and
\* whether the ollama package is installed.  Curfew bounds are times of day:
\* the default 01:00-06:00 (never met in the instants followed), a window
\* inside day 0 (23:59:00-23:59:55) and one that wraps past midnight
\* (23:59:55-00:00:00).
Installations ==
  { <<AppConfig(<<"chrome.exe">>, 3600, 21600, 5, TRUE), {<<>>}, TRUE>>,
    <<AppConfig(<<"EXPLORER.EXE", "chrome.exe">>, 3600, 21600, 7200, TRUE),
      StoredLogs, FALSE>>,
    <<AppConfig(<<"chrome.exe">>, DayLen - 60, DayLen - 5, 5, TRUE),
      {<<>>}, TRUE>>,
    <<AppConfig(<<>>, DayLen - 60, DayLen - 5, 5, FALSE), {<<>>}, TRUE>>,
    <<AppConfig(<<"chrome.exe">>, DayLen - 5, 0, 5, TRUE), {<<>>}, FALSE>>,
    <<AppConfig(<<"chrome.exe">>, DayLen - 5, 0, 5, FALSE), {<<>>}, TRUE>> }

Init ==
  /\ \E i \in Installations :
       /\ config = i[1]
       /\ usage_log \in i[2]
       /\ client_ok = i[3]
  /\ now = Boot
  /\ overlay_active = FALSE
  /\ last_intervention_time = NoTime
  /\ fallback_index = 0
  /\ overlay = OverlayInit
  /\ pending_shows = 0
  /\ obs = Idle

Next ==
  \/ Poll
  \/ PollFault
  \/ ReopenStore
  \/ Advance
  \/ OverlayTick
  \/ CloseClick
  \/ KeyPress
  \/ CloseEvent

Spec == Init /\ [][Next]_vars

\* ------------------------------------------------- _is_curfew_time alone
\* Times of day the bounds and the probes are drawn from: midnight, 00:00:01,
\* 01:00, 02:30, 05:59:59, 06:00, 06:00:01, 23:00 and 23:59:59.
CurfewTimes ==
  {0, 1, 3600, 9000, 21599, 21600, 21601, 82800, DayLen - 1}

InitCurfew ==
  /\ \E start \in CurfewTimes, end \in CurfewTimes :
       config = AppConfig(<<>>, start, end, 7200, TRUE)
  /\ usage_log = <<>>
  /\ client_ok = TRUE
  /\ now = Boot
  /\ overlay_active = FALSE
  /\ last_intervention_time = NoTime
  /\ fallback_index = 0
  /\ overlay = OverlayInit
  /\ pending_shows = 0
  /\ obs = Idle

\* _is_curfew_time(current) is called.
CallIsCurfewTime ==
  \E current \in CurfewTimes :
    /\ obs' = [Idle EXCEPT !.op = "is_curfew_time", !.arg = current,
                           !.result = IsCurfewTime(current)]
    /\ UNCHANGED <<config, now, overlay_active, last_intervention_time,
                   usage_log, client_ok, fallback_index, overlay,
                   pending_shows>>

SpecCurfew == InitCurfew /\ [][CallIsCurfewTime]_vars

\* ------------------------------------------------------- UsageTracker alone
LedgerNames == {"app.exe", "APP.EXE", "chrome.exe"}

LedgerDurations == {5, 60}

InitLedger ==
  /\ config = AppConfig(<<>>, 3600, 21600, 7200, TRUE)
  /\ usage_log = <<>>
  /\ client_ok = TRUE
  /\ now = Boot
  /\ overlay_active = FALSE
  /\ last_intervention_time = NoTime
  /\ fallback_index = 0
  /\ overlay = OverlayInit
  /\ pending_shows = 0
  /\ obs = Idle

\* record_usage(process_name, duration_sec=duration_sec) is called.
CallRecordUsage ==
  \E process_name \in LedgerNames, duration_sec \in LedgerDurations,
     ok \in BOOLEAN :
    /\ Len(usage_log) < MaxLedger
    /\ usage_log' = RecordUsage(usage_log, process_name, duration_sec, now, ok)
    /\ obs' = [Idle EXCEPT !.op = "record_usage", !.arg = process_name,
                           !.result = duration_sec, !.write_error = ~ok]
    /\ UNCHANGED <<config, now, overlay_active, last_intervention_time,
                   client_ok, fallback_index, overlay, pending_shows>>

\* get_usage_today(process_name) is called.
CallGetUsageToday ==
  \E process_name \in LedgerNames, ok \in BOOLEAN :
    /\ obs' = [Idle EXCEPT !.op = "get_usage_today", !.arg = process_name,
                           !.result = GetUsageToday(usage_log, process_name,
                                                    now, ok),
                           !.check.read_error = ~ok]
    /\ UNCHANGED <<config, now, overlay_active, last_intervention_time,
                   usage_log, client_ok, fallback_index, overlay,
                   pending_shows>>

\* Midnight passes.
NextDay ==
  /\ Date(now) < MaxDays
  /\ now' = (Date(now) + 1) * DayLen
  /\ obs' = Idle
  /\ UNCHANGED <<config, overlay_active, last_intervention_time, usage_log,
                 client_ok, fallback_index, overlay, pending_shows>>

NextLedger ==
  \/ CallRecordUsage
  \/ CallGetUsageToday
  \/ NextDay

SpecLedger == InitLedger /\ [][NextLedger]_vars

\* ---------------------------------------------------------------- C1..C3
\* A poll tick has just run.
Polled == obs.op = "poll"

\* C1: while the overlay-active flag is set, a poll tick does nothing: no
\* foreground sample, no ledger row, no policy evaluation, no termination,
\* no show call; and no handler at all touches the ledger, the intervention
\* time or the fallback rotation.  Hence show_message is never called twice
\* without an overlay_closed in between.
C1_InterveningTickIsNoOp ==
  [][ /\ (overlay_active /\ obs'.op = "poll") =>
           /\ obs'.skipped
           /\ ~obs'.fg1_called /\ ~obs'.recorded /\ ~obs'.evaluated
           /\ ~obs'.check.listed /\ ~obs'.check.fg2_called
           /\ obs'.check.kill = NoName /\ ~obs'.check.taskkill
           /\ ~obs'.triggered /\ obs'.shown = <<>>
           /\ UNCHANGED <<now, overlay_active, last_intervention_time,
                          usage_log, fallback_index, overlay, pending_shows>>
      /\ overlay_active =>
           UNCHANGED <<usage_log, last_intervention_time, fallback_index>>
      /\ pending_shows' <= 1 ]_vars

\* A tick arrives while an overlay is displayed.
C1_Witness == Polled /\ obs.skipped /\ overlay_active /\ overlay.visible

\* C2: a tick whose clock reads t with t - T < 60, T the time of the last
\* intervention, surfaces no violation whatever the curfew, blacklist and
\* usage conditions, also after the overlay was dismissed; a tick with
\* t - T >= 60 is not suppressed: inside the curfew (with curfew_blocks_all)
\* or with a blacklisted process listed, it triggers an intervention.
C2_CooldownWindow ==
  [][ (~overlay_active /\ obs'.op = "poll"
         /\ last_intervention_time # NoTime) =>
        LET T == last_intervention_time
            t == now
        IN /\ t - T < intervention_cooldown =>
                /\ obs'.check.suppressed
                /\ obs'.check.violation = NoViolation
                /\ ~obs'.triggered
                /\ UNCHANGED <<overlay_active, last_intervention_time,
                               overlay>>
           /\ t - T >= intervention_cooldown =>
                /\ ~obs'.check.suppressed
                /\ CurfewFires(t) => obs'.triggered
                /\ (obs'.check.listed
                    /\ FirstBlacklisted(obs'.check.running) # NoName)
                     => obs'.triggered ]_vars

\* A tick inside the cooldown, after the overlay was dismissed, at an
\* instant inside the curfew window.
C2_Witness ==
  /\ Polled /\ obs.check.suppressed /\ ~overlay_active
  /\ obs.t_check > last_intervention_time
  /\ CurfewFires(obs.t_check)

\* The curfew window as the specification words it: [start, end), wrapping
\* past midnight when start > end.
InsideCurfewWindow(t) ==
  IF config.curfew_start < config.curfew_end
  THEN config.curfew_start <= t /\ t < config.curfew_end
  ELSE config.curfew_start > config.curfew_end
       /\ (t >= config.curfew_start \/ t < config.curfew_end)

\* C3: a tick that the cooldown does not suppress, at a time of day inside
\* the curfew window with curfew_blocks_all set, returns a Curfew violation,
\* and neither lists processes, nor terminates one, nor samples the
\* foreground for the usage cap, nor queries a total.
C3_CurfewFirst ==
  [][ (~overlay_active /\ obs'.op = "poll"
         /\ ~(last_intervention_time # NoTime
              /\ now - last_intervention_time < intervention_cooldown)
         /\ InsideCurfewWindow(TimeOfDay(now))
         /\ config.curfew_blocks_all) =>
        /\ obs'.check.violation.kind = "Curfew"
        /\ obs'.check.violation.curfew =
             <<FormatHM(config.curfew_start), FormatHM(config.curfew_end)>>
        /\ ~obs'.check.listed
        /\ obs'.check.kill = NoName /\ ~obs'.check.taskkill
        /\ ~obs'.check.fg2_called /\ obs'.check.queried = NoName
        /\ obs'.triggered ]_vars

\* A Curfew violation in an installation whose blacklist is not empty.
C3_Witness ==
  /\ Polled /\ obs.check.violation.kind = "Curfew"
  /\ config.blacklist # <<>>
  /\ last_intervention_time = now

\* --------------------------------------------------------------- C4..C10
\* C4 as stated: for start < end, isCurfew(t) exactly when start <= t < end;
\* for start > end, exactly when t >= start or t < end (end excluded).
C4_EndExcluded ==
  obs.op = "is_curfew_time" =>
    LET t == obs.arg
        start == config.curfew_start
        end == config.curfew_end
    IN /\ start < end => (obs.result <=> (start <= t /\ t < end))
       /\ start > end => (obs.result <=> (t >= start \/ t < end))

\* C4, amended: the end bound belongs to the window.  For start < end,
\* isCurfew(t) exactly when start <= t <= end; for start > end, exactly when
\* t >= start or t <= end.
C4_EndIncluded ==
  obs.op = "is_curfew_time" =>
    LET t == obs.arg
        start == config.curfew_start
        end == config.curfew_end
    IN /\ start < end => (obs.result <=> (start <= t /\ t <= end))
       /\ start > end => (obs.result <=> (t >= start \/ t <= end))

\* 06:00:00 asked of the window 23:00-06:00.
C4_Witness ==
  /\ obs.op = "is_curfew_time"
  /\ config.curfew_start = 82800 /\ config.curfew_end = 21600
  /\ obs.arg = 21600 /\ obs.result = TRUE

\* The blacklist check of the last tick was reached.
BlacklistChecked ==
  /\ Polled /\ obs.evaluated /\ ~obs.check.suppressed
  /\ obs.check.violation.kind # "Curfew"

\* Some listed process is named by some blacklist entry, whatever the case.
SomeBlacklistedRuns(processes) ==
  \E p \in processes : \E i \in 1..Len(config.blacklist) :
    Lower(p) = Lower(config.blacklist[i])

\* C5: in a tick that reaches the blacklist check, a Blacklist violation is
\* returned if and only if some listed process equals some blacklist entry
\* case-insensitively; it names an entry that matched, and kill_process is
\* called with that entry in the same tick.  With an empty blacklist there
\* is none.
C5_BlacklistIff ==
  /\ BlacklistChecked =>
       /\ obs.check.listed
       /\ obs.check.violation.kind = "Blacklist"
            <=> SomeBlacklistedRuns(obs.check.running)
       /\ obs.check.violation.kind = "Blacklist" =>
            /\ \E i \in 1..Len(config.blacklist) :
                 obs.check.violation.name = config.blacklist[i]
            /\ \E p \in obs.check.running :
                 Lower(p) = Lower(obs.check.violation.name)
            /\ obs.check.kill = obs.check.violation.name
            /\ obs.triggered
       /\ obs.check.violation.kind # "Blacklist" => obs.check.kill = NoName
  /\ (Polled /\ config.blacklist = <<>>) =>
       obs.check.violation.kind # "Blacklist"

\* chrome.exe is blacklisted, the listing spells it Chrome.EXE.
C5_Witness ==
  /\ Polled /\ obs.check.violation = BlacklistViolation("chrome.exe")
  /\ "Chrome.EXE" \in obs.check.running
  /\ obs.check.kill = "chrome.exe" /\ obs.check.taskkill

\* The sum of the durations of the rows of log dated day whose process name
\* is p up to case, as the specification words it.
RECURSIVE SumRows(_, _)
SumRows(log, idx) ==
  IF idx = {} THEN 0
  ELSE LET i == CHOOSE j \in idx : TRUE
       IN log[i].duration_sec + SumRows(log, idx \ {i})

ExactSum(log, p, day) ==
  SumRows(log, {i \in 1..Len(log) :
                  log[i].date = day
                  /\ Lower(log[i].process_name) = Lower(p)})

\* C6: in a tick where no earlier check fires, UsageExceeded is returned
\* exactly when the total reported for the foreground process is strictly
\* greater than max_usage_seconds (a total equal to it is no violation); it
\* names that process and carries hours = total div 3600 and
\* minutes = (total mod 3600) div 60.  The total reported by a query that
\* succeeds is the sum of the process's rows of the day.
C6_UsageCap ==
  (BlacklistChecked /\ obs.check.violation.kind # "Blacklist") =>
    /\ obs.check.fg2_called
    /\ obs.check.violation.kind \in {"UsageExceeded", "None"}
    /\ obs.check.violation.kind = "UsageExceeded"
         <=> (obs.check.queried # NoName
              /\ obs.check.usage > config.max_usage_seconds)
    /\ obs.check.violation.kind = "UsageExceeded" =>
         /\ obs.check.violation.name = obs.check.fg2
         /\ obs.check.queried = obs.check.fg2
         /\ obs.check.violation.hours = obs.check.usage \div 3600
         /\ obs.check.violation.minutes = (obs.check.usage % 3600) \div 60
         /\ obs.triggered
    /\ (obs.check.queried # NoName /\ ~obs.check.read_error) =>
         obs.check.usage = ExactSum(usage_log, obs.check.queried, Date(now))

\* Cap 7200, total 7300: hours 2, minutes 1.
C6_Witness ==
  /\ Polled /\ config.max_usage_seconds = 7200
  /\ obs.check.usage = 7300
  /\ obs.check.violation.kind = "UsageExceeded"
  /\ obs.check.violation.hours = 2 /\ obs.check.violation.minutes = 1

\* C7: kill_process called with a name that is, lower-cased, in the protected
\* set returns False and does not run taskkill.exe, also when the name is a
\* blacklist entry and the process is running.
C7_ProtectedNeverKilled ==
  (Polled /\ obs.check.kill # NoName
     /\ Lower(obs.check.kill) \in protected) =>
    /\ ~obs.check.taskkill
    /\ ~obs.check.kill_result

\* EXPLORER.EXE is blacklisted and explorer.exe is running.
C7_Witness ==
  /\ Polled /\ obs.check.kill = "EXPLORER.EXE"
  /\ "explorer.exe" \in obs.check.running
  /\ obs.check.violation.kind = "Blacklist"
  /\ ~obs.check.taskkill

\* The Message Generator is unavailable, fails or returns nothing.
GeneratorFails ==
  \/ ~client_ok
  \/ obs.chat = "<raise>"
  \/ Strip(obs.chat) = ""

\* C8: when the generator is unavailable, raises or returns an empty string
\* during an intervention, the coordinator is Intervening, the intervention
\* time is set to the time of the trigger, and the text handed to the overlay
\* carries a non-empty message, one of the built-in fallbacks; all of it in
\* the tick that found the violation.
C8_FallbackIntervention ==
  (Polled /\ obs.check.violation.kind # "None" /\ GeneratorFails) =>
    /\ obs.triggered
    /\ overlay_active
    /\ last_intervention_time = now
    /\ overlay.visible /\ overlay.message = "given"
    /\ obs.shown = <<obs.check.violation, obs.scolding>>
    /\ obs.scolding # ""
    /\ \E k \in 1..Len(FALLBACK_MESSAGES) : obs.scolding = FALLBACK_MESSAGES[k]
    /\ obs.used_fallback

\* An intervention whose generator answered with white space.
C8_Witness ==
  /\ Polled /\ obs.triggered /\ obs.chat = "  "
  /\ overlay_active /\ obs.scolding = "fallback-0"

\* C9: when the overlay reports dismissal while the coordinator is
\* Intervening, the overlay-active flag is cleared; and a poll tick that
\* finds the flag cleared samples the foreground process, records its usage
\* (when there is a sample with a name other than Unknown and the write
\* succeeds) and evaluates the policy.
C9_DismissalResumes ==
  [][ /\ (overlay_active /\ pending_shows > 0 /\ pending_shows' = 0) =>
           ~overlay_active'
      /\ (~overlay_active /\ obs'.op = "poll") =>
           /\ ~obs'.skipped
           /\ obs'.fg1_called
           /\ obs'.evaluated /\ obs'.t_check = now
           /\ obs'.recorded <=> (Records(obs'.fg1) /\ ~obs'.write_error)
           /\ obs'.recorded =>
                /\ Len(usage_log') = Len(usage_log) + 1
                /\ usage_log'[Len(usage_log')] =
                     [date |-> Date(now), process_name |-> obs'.fg1,
                      duration_sec |-> config.poll_interval] ]_vars

\* A tick after a dismissal that sampled, recorded and evaluated.
C9_Witness ==
  /\ Polled /\ ~obs.skipped /\ obs.recorded /\ obs.evaluated
  /\ last_intervention_time # NoTime
  /\ obs.t_check > last_intervention_time

\* C10 as stated: totalSecondsToday(p) is exactly the sum of the durations of
\* the rows of the current day whose process name is p up to case.
C10_ExactSumAlways ==
  obs.op = "get_usage_today" =>
    obs.result = ExactSum(usage_log, obs.arg, Date(now))

\* C10, amended: a query that the store answers returns exactly that sum (0
\* when there is no such row); a query that meets a storage error returns 0.
C10_ExactSumUnlessStorageError ==
  obs.op = "get_usage_today" =>
    IF obs.check.read_error
    THEN obs.result = 0
    ELSE obs.result = ExactSum(usage_log, obs.arg, Date(now))

\* Two rows of today spelled differently add up.
C10_Witness ==
  /\ obs.op = "get_usage_today" /\ ~obs.check.read_error
  /\ obs.arg = "app.exe" /\ obs.result = 65
  /\ \E i \in 1..Len(usage_log) : usage_log[i].process_name = "APP.EXE"

\* -------------------------------------------------------------- C11..C20
\* The rows of the table dated day.
RowsOfDay(day) == {i \in 1..Len(usage_log) : usage_log[i].date = day}

\* C11: a row dated another day adds nothing to a total queried today: the
\* total a tick obtains is at most the sum of the rows dated the day of the
\* query, and with no row of that day it is 0 and no UsageExceeded violation
\* is returned, whatever the rows of earlier days add up to.
C11_TotalsRestartAtMidnight ==
  (Polled /\ obs.check.queried # NoName) =>
    /\ obs.check.usage <= SumRows(usage_log, RowsOfDay(Date(now)))
    /\ RowsOfDay(Date(now)) = {} =>
         /\ obs.check.usage = 0
         /\ obs.check.violation.kind # "UsageExceeded"

\* A tick of day 1 queries app.exe while the rows of day 0 exceed the cap.
C11_Witness ==
  /\ Polled /\ Date(now) = 1 /\ obs.check.queried = "app.exe"
  /\ ~obs.check.read_error
  /\ ExactSum(usage_log, "app.exe", 0) = 7300
  /\ config.max_usage_seconds = 7200
  /\ obs.check.usage = 0 /\ obs.check.violation = NoViolation

\* C12: a tick in which get_running_processes yields the empty list and
\* get_active_window yields None returns no violation: nothing is
\* terminated, no total is queried, no intervention is triggered and
\* nothing is shown.
C12_InspectorFailureNoViolation ==
  (Polled /\ obs.check.listed /\ obs.check.running = {}
     /\ obs.check.fg2 = NoName) =>
    /\ obs.check.fg2_called
    /\ obs.check.violation = NoViolation
    /\ obs.check.kill = NoName /\ ~obs.check.taskkill
    /\ obs.check.queried = NoName
    /\ ~obs.triggered /\ obs.shown = <<>>
    /\ ~overlay_active

\* Both inspection tools fail in a tick of an installation with a blacklist.
C12_Witness ==
  /\ Polled /\ obs.check.listed /\ obs.check.running = {}
  /\ obs.fg1 = NoName /\ obs.check.fg2_called /\ obs.check.fg2 = NoName
  /\ config.blacklist # <<>>
  /\ obs.check.violation = NoViolation /\ ~overlay_active

\* C13: a storage error does not stop the tick.  A write that fails leaves
\* the table as it was and the tick goes on to evaluate the policy; a total
\* whose query fails is 0, and the tick returns no UsageExceeded violation.
C13_StorageErrorDegrades ==
  [][ (~overlay_active /\ obs'.op = "poll") =>
        /\ obs'.write_error =>
             /\ usage_log' = usage_log /\ ~obs'.recorded
             /\ obs'.evaluated
        /\ obs'.check.read_error =>
             /\ obs'.check.queried # NoName
             /\ obs'.check.usage = 0
             /\ obs'.check.violation.kind # "UsageExceeded"
             /\ usage_log' \in {usage_log,
                                Append(usage_log,
                                       [date |-> Date(now),
                                        process_name |-> obs'.fg1,
                                        duration_sec |-> config.poll_interval])}
    ]_vars

\* The write and the query fail in a tick while the stored rows of app.exe
\* exceed the cap.
C13_Witness ==
  /\ Polled /\ obs.write_error /\ obs.check.read_error /\ obs.evaluated
  /\ obs.check.queried = "app.exe"
  /\ ExactSum(usage_log, "app.exe", Date(now)) = 7295
  /\ config.max_usage_seconds = 7200
  /\ obs.check.usage = 0 /\ obs.check.violation = NoViolation

\* The last handler was a tick that ended in the except clause of _poll.
PollFaulted == obs.op = "poll_fault"

\* C14 as stated: the tick that follows a tick ended by a caught exception
\* does the normal processing: it samples the foreground, records it (when
\* there is a sample named other than Unknown and the write succeeds) and
\* evaluates the policy.
C14_TickAfterFaultIsNormal ==
  [][ (PollFaulted /\ obs'.op = "poll") =>
        /\ ~obs'.skipped
        /\ obs'.fg1_called
        /\ obs'.evaluated
        /\ obs'.recorded <=> (Records(obs'.fg1) /\ ~obs'.write_error) ]_vars

\* What holds: the same, for an exception raised before _trigger_intervention
\* has set the overlay-active flag.
C14_TickAfterEarlyFaultIsNormal ==
  [][ (PollFaulted /\ obs.fault # "trigger" /\ obs'.op = "poll") =>
        /\ ~obs'.skipped
        /\ obs'.fg1_called
        /\ obs'.evaluated
        /\ obs'.recorded <=> (Records(obs'.fg1) /\ ~obs'.write_error) ]_vars

\* A tick is skipped although no overlay is displayed and none was shown.
C14_Witness ==
  /\ Polled /\ obs.skipped
  /\ overlay_active /\ ~overlay.visible /\ pending_shows = 0
  /\ overlay.message = "none"

\* C15: the usage table only grows: whatever handler runs (a tick, an
\* intervention, a dismissal, a re-initialisation of the store), every row of
\* the table stays where it is, unchanged.
C15_TableOnlyGrows ==
  [][ /\ Len(usage_log') >= Len(usage_log)
      /\ \A i \in 1..Len(usage_log) : usage_log'[i] = usage_log[i] ]_vars

\* The store is re-initialised while it holds a row of an earlier run and a
\* row of this one.
C15_Witness ==
  /\ obs.op = "init_db" /\ Len(usage_log) = 2
  /\ usage_log[1].duration_sec = 7295
  /\ usage_log[2].duration_sec = config.poll_interval

\* ------------------------------------------------ WindowsProcessMonitor alone
\* How a run of an inspection tool ends: exit code 0, another exit code,
\* subprocess.TimeoutExpired, FileNotFoundError (missing binary) or another
\* exception (OSError, csv.Error, ...).
ToolStatuses == {"ok", "nonzero", "timeout", "missing", "error"}

\* The endings that are exceptions raised inside the try block.
ToolRaises == {"timeout", "missing", "error"}

\* Mutant of InspectorCatches: the last except clause is missing.
InspectorCatchesNamed == {"timeout", "missing"}

\* The except clauses of get_running_processes and get_active_window:
\* TimeoutExpired, FileNotFoundError, Exception.
InspectorCatches == {"timeout", "missing", "error"}

\* The exception of a run leaves the inspector's method.
InspectorRaises(status) == status \in ToolRaises \ InspectorCatches

\* Lines of tasklist.exe /FO CSV /NH as csv.reader sees them: the number of
\* fields, the first two fields without their quotes, and whether the line
\* ends inside a quoted field that it opened and did not close.
Line(fields, name, pid_str, open) ==
  [fields |-> fields, name |-> name, pid_str |-> pid_str, open |-> open]

\* "chrome.exe","12345","Console","1","150,000 K"
\* "app.exe","77","Console","1","1 K"
\* "a","b"
\* "x","abc","Console","1","5 K"
\* "","5","Console","1","5 K"
\* "bad
ListingLines ==
  { Line(5, "chrome.exe", "12345", FALSE),
    Line(5, "app.exe", "77", FALSE),
    Line(2, "a", "b", FALSE),
    Line(5, "x", "abc", FALSE),
    Line(5, "", "5", FALSE),
    Line(1, "bad", "", TRUE) }

\* int() on the process ids the lines carry; a string not listed raises
\* ValueError.
IntTable ==
  [s \in {"12345", "77", "5"} |->
     CASE s = "12345" -> 12345 [] s = "77" -> 77 [] s = "5" -> 5]

\* csv.reader joins a line that ends inside a quoted field with the line
\* after it: the quote that begins the next line closes the field, the text
\* up to the next comma is appended to it; a line beginning with two quotes
\* keeps the field open past its first comma.
JoinLines(carry, l) ==
  IF l.name = ""
  THEN Line(carry.fields + l.fields - 2, carry.name \o "\n", "", FALSE)
  ELSE Line(carry.fields + l.fields - 1,
            IF carry.fields = 1 THEN carry.name \o "\n" \o l.name
            ELSE carry.name,
            IF carry.fields = 1 THEN l.pid_str ELSE carry.pid_str,
            FALSE)

\* csv.reader: the rows read from the lines; carry is the line whose quoted
\* field is still open, <<>> when there is none.
RECURSIVE CsvReader(_, _)
CsvReader(lines, carry) ==
  IF lines = <<>>
  THEN IF carry = <<>> THEN <<>> ELSE <<[carry[1] EXCEPT !.open = FALSE]>>
  ELSE LET l == Head(lines)
       IN IF carry # <<>>
          THEN <<JoinLines(carry[1], l)>> \o CsvReader(Tail(lines), <<>>)
          ELSE IF l.open
          THEN CsvReader(Tail(lines), <<l>>)
          ELSE <<l>> \o CsvReader(Tail(lines), <<>>)

\* _parse_tasklist_csv: the row yields a ProcessInfo.
RowAccepted(row) ==
  /\ row.fields >= 5
  /\ row.name # "" /\ row.pid_str # ""
  /\ row.pid_str \in DOMAIN IntTable

ProcessInfo(row) == [name |-> row.name, pid |-> IntTable[row.pid_str]]

RECURSIVE MapProcessInfo(_)
MapProcessInfo(rows) ==
  IF rows = <<>> THEN <<>>
  ELSE <<ProcessInfo(Head(rows))>> \o MapProcessInfo(Tail(rows))

\* _parse_tasklist_csv
ParseTasklistCsv(lines) ==
  MapProcessInfo(SelectSeq(CsvReader(lines, <<>>), RowAccepted))

\* Most lines of a listing output.
MaxLines == 3

ListingOutputs ==
  UNION {[1..n -> ListingLines] : n \in 0..MaxLines}

\* What powershell.exe prints: nothing, a line without a tab, or
\* name<TAB>title<TAB>pid.
PsStdouts == {"", "garbage", "app.exe\tTitle\t5", "Unknown\tUnknown\t0"}

\* get_active_window: the process name parsed from the output, NoName when
\* the method returns None for it.
ParseActiveWindow(stdout) ==
  CASE stdout = "app.exe\tTitle\t5" -> "app.exe"
    [] stdout = "Unknown\tUnknown\t0" -> "Unknown"
    [] OTHER -> NoName

InitInspector ==
  /\ config = AppConfig(<<>>, 3600, 21600, 7200, TRUE)
  /\ usage_log = <<>>
  /\ client_ok = TRUE
  /\ now = Boot
  /\ overlay_active = FALSE
  /\ last_intervention_time = NoTime
  /\ fallback_index = 0
  /\ overlay = OverlayInit
  /\ pending_shows = 0
  /\ obs = Idle

\* _parse_tasklist_csv(csv_text) is called.
CallParseTasklistCsv ==
  \E lines \in ListingOutputs :
    /\ obs.op = "idle"
    /\ obs' = [Idle EXCEPT !.op = "parse_tasklist_csv", !.arg = lines,
                           !.result = ParseTasklistCsv(lines)]
    /\ UNCHANGED <<config, now, overlay_active, last_intervention_time,
                   usage_log, client_ok, fallback_index, overlay,
                   pending_shows>>

\* get_running_processes() is called; the tool ends with status, having
\* printed lines.
CallGetRunningProcesses ==
  \E status \in ToolStatuses, lines \in ListingOutputs :
    LET parsed == ParseTasklistCsv(lines)
        tl == [status |-> status,
               names |-> {parsed[i].name : i \in 1..Len(parsed)}]
    IN /\ obs.op = "idle"
       /\ obs' = [Idle EXCEPT !.op = "get_running_processes",
                              !.arg = [status |-> status, lines |-> lines],
                              !.result = GetRunningProcesses(tl),
                              !.fault = IF InspectorRaises(status)
                                        THEN "raised" ELSE "none"]
       /\ UNCHANGED <<config, now, overlay_active, last_intervention_time,
                      usage_log, client_ok, fallback_index, overlay,
                      pending_shows>>

\* get_active_window() is called; the tool ends with status, having printed
\* stdout.
CallGetActiveWindow ==
  \E status \in ToolStatuses, stdout \in PsStdouts :
    LET ps == [status |-> status, name |-> ParseActiveWindow(stdout)]
    IN /\ obs.op = "idle"
       /\ obs' = [Idle EXCEPT !.op = "get_active_window",
                              !.arg = [status |-> status, stdout |-> stdout],
                              !.result = GetActiveWindow(ps),
                              !.fault = IF InspectorRaises(status)
                                        THEN "raised" ELSE "none"]
       /\ UNCHANGED <<config, now, overlay_active, last_intervention_time,
                      usage_log, client_ok, fallback_index, overlay,
                      pending_shows>>

\* The methods keep no state: each call is followed from the start.
NextInspector ==
  \/ CallParseTasklistCsv
  \/ CallGetRunningProcesses
  \/ CallGetActiveWindow

SpecInspector == InitInspector /\ [][NextInspector]_vars

\* C16: get_running_processes and get_active_window never raise; when the
\* tool is missing, exits with a non-zero code, times out or fails otherwise,
\* the former returns the empty list and the latter None, whatever the tool
\* printed: a timeout gives what every other failure gives.
C16_InspectorNeverRaises ==
  /\ obs.op = "get_running_processes" =>
       /\ obs.fault = "none"
       /\ obs.arg.status # "ok" => obs.result = {}
  /\ obs.op = "get_active_window" =>
       /\ obs.fault = "none"
       /\ obs.arg.status # "ok" => obs.result = NoName

\* tasklist.exe times out after printing a well-formed row.
C16_Witness ==
  /\ obs.op = "get_running_processes" /\ obs.arg.status = "timeout"
  /\ obs.arg.lines = <<Line(5, "chrome.exe", "12345", FALSE)>>
  /\ obs.result = {} /\ obs.fault = "none"

\* A line that, taken alone, is a well-formed row: five fields or more, a
\* name, a numeric process id, every quote closed.
WellFormedLine(l) ==
  /\ l.fields >= 5 /\ ~l.open
  /\ l.name # ""
  /\ l.pid_str \in {"12345", "77", "5"}

\* C17 as stated: for every listing output the result is exactly the records
\* of its well-formed rows, in order; a row that is not well-formed is
\* dropped alone and changes nothing of the rows before and after it.
C17_PerRowParsing ==
  obs.op = "parse_tasklist_csv" =>
    obs.result = MapProcessInfo(SelectSeq(obs.arg, WellFormedLine))

\* What holds: the same, for an output none of whose lines ends inside a
\* quoted field.
C17_PerRowParsingClosedQuotes ==
  (obs.op = "parse_tasklist_csv"
     /\ \A i \in 1..Len(obs.arg) : ~obs.arg[i].open) =>
    obs.result = MapProcessInfo(SelectSeq(obs.arg, WellFormedLine))

\* The one-field line "bad swallows the row of chrome.exe that follows it;
\* the row of app.exe after them is read as it is.
C17_Witness ==
  /\ obs.op = "parse_tasklist_csv"
  /\ obs.arg = <<Line(1, "bad", "", TRUE),
                 Line(5, "chrome.exe", "12345", FALSE),
                 Line(5, "app.exe", "77", FALSE)>>
  /\ obs.result = <<[name |-> "bad\nchrome.exe", pid |-> 12345],
                    [name |-> "app.exe", pid |-> 77]>>

\* C18: a tick that gets no foreground sample (get_active_window returns
\* None each time the tick calls it) records no row, queries no total and
\* returns no UsageExceeded violation, whatever the table holds.
C18_NoSampleNoUsageCheck ==
  [][ (~overlay_active /\ obs'.op = "poll"
         /\ obs'.fg1 = NoName /\ obs'.check.fg2 = NoName) =>
        /\ ~obs'.recorded /\ usage_log' = usage_log
        /\ obs'.check.queried = NoName
        /\ obs'.check.violation.kind # "UsageExceeded" ]_vars

\* Neither sample is obtained in a tick while the stored total of app.exe
\* exceeds the cap.
C18_Witness ==
  /\ Polled /\ obs.fg1_called /\ obs.fg1 = NoName
  /\ obs.check.fg2_called /\ obs.check.fg2 = NoName
  /\ ExactSum(usage_log, "app.exe", Date(now)) = 7295
  /\ config.max_usage_seconds = 7200
  /\ obs.check.violation = NoViolation

\* C19: overlay_closed is emitted only when show_message has been called
\* since the last emission (or since the start, for the first one): hence at
\* most once for each show_message call, never before the first one, and
\* never twice without a show_message call in between.
C19_OneDismissalPerShow ==
  [][ obs'.op = "overlay_closed" =>
        /\ pending_shows >= 1
        /\ overlay.visible /\ ~overlay.is_locked
        /\ ~overlay'.visible /\ pending_shows' = 0 ]_vars

\* The overlay of a second intervention is dismissed (each intervention of
\* an installation without the ollama package takes one fallback message).
C19_Witness ==
  /\ obs.op = "overlay_closed" /\ ~overlay.visible
  /\ ~client_ok /\ fallback_index = 2
  /\ last_intervention_time = Boot + 60

\* C20: with curfew_blocks_all not set no tick returns a Curfew violation,
\* inside the curfew window or not; a tick that the cooldown does not
\* suppress goes on to the process listing and returns what the blacklist
\* and usage-cap checks give: Blacklist exactly when a listed process is
\* blacklisted, otherwise UsageExceeded exactly when the total queried
\* exceeds the cap, otherwise nothing.
C20_CurfewOffFallsThrough ==
  (Polled /\ obs.evaluated /\ ~config.curfew_blocks_all) =>
    /\ obs.check.violation.kind # "Curfew"
    /\ ~obs.check.suppressed =>
         /\ obs.check.listed
         /\ obs.check.violation.kind = "Blacklist"
              <=> SomeBlacklistedRuns(obs.check.running)
         /\ ~SomeBlacklistedRuns(obs.check.running) =>
              /\ obs.check.fg2_called
              /\ obs.check.violation.kind = "UsageExceeded"
                   <=> (obs.check.queried # NoName
                        /\ obs.check.usage > config.max_usage_seconds)
              /\ obs.check.violation.kind # "UsageExceeded" =>
                   obs.check.violation = NoViolation

\* A tick at 23:59:55, inside the window 23:59:55-00:00, with
\* curfew_blocks_all not set, finds chrome.exe.
C20_Witness ==
  /\ Polled /\ ~config.curfew_blocks_all
  /\ InsideCurfewWindow(TimeOfDay(obs.t_check))
  /\ obs.check.listed
  /\ obs.check.violation = BlacklistViolation("chrome.exe")

\* -------------------------------------------------------------- C21..C28
\* C21: while the overlay is shown and locked no handler hides it and no
\* overlay_closed is emitted (key presses and close requests change
\* nothing); the lock is released only by the countdown tick that takes the
\* countdown from 1 to 0, each tick taking one off, so after
\* COUNTDOWN_SECONDS ticks; and every show_message call sets the countdown to
\* COUNTDOWN_SECONDS and locks the overlay.
C21_LockedUntilCountdown ==
  [][ /\ (overlay.visible /\ overlay.is_locked) =>
           /\ overlay'.visible
           /\ obs'.op # "overlay_closed"
           /\ pending_shows' >= pending_shows
           /\ overlay_active' = overlay_active
           /\ overlay.countdown \in 1..COUNTDOWN_SECONDS
           /\ overlay'.countdown \in {overlay.countdown, overlay.countdown - 1}
           /\ ~overlay'.is_locked => overlay'.countdown = 0
      /\ pending_shows' > pending_shows =>
           /\ overlay'.visible /\ overlay'.is_locked
           /\ overlay'.countdown = COUNTDOWN_SECONDS
           /\ overlay'.timer_active ]_vars

\* The overlay of a second intervention, shown after the first one was
\* unlocked and dismissed, is locked with the countdown at 5.
C21_Witness ==
  /\ Polled /\ obs.triggered /\ ~client_ok /\ fallback_index = 2
  /\ overlay.visible /\ overlay.is_locked
  /\ overlay.countdown = COUNTDOWN_SECONDS

\* C22 as stated: once an inspection call has failed in a tick, the same tool
\* is not invoked again in that tick: a tick whose first foreground sample
\* failed does not call get_active_window a second time.
C22_NoSecondCallAfterFailure ==
  (Polled /\ obs.fg1_called /\ obs.fg1 = NoName) => ~obs.check.fg2_called

\* C22, amended: a tick lists the processes at most once and samples the
\* foreground at most twice, and no call is made because an earlier one
\* failed: the first sample is taken by every tick that is not skipped, the
\* listing by every such tick that neither the cooldown nor the curfew ends,
\* and the second sample by every such tick whose listing names no
\* blacklisted process, whether the first sample failed or not.
C22_CallsDoNotDependOnFailure ==
  Polled =>
    /\ obs.fg1_called <=> ~obs.skipped
    /\ obs.check.listed <=>
         (~obs.skipped /\ ~obs.check.suppressed
          /\ obs.check.violation.kind # "Curfew")
    /\ obs.check.fg2_called <=>
         (obs.check.listed /\ ~SomeBlacklistedRuns(obs.check.running))

\* The first sample of a tick fails, and the tick samples again, with
\* success.
C22_Witness ==
  /\ Polled /\ obs.fg1_called /\ obs.fg1 = NoName
  /\ obs.check.fg2_called /\ obs.check.fg2 = "app.exe"

\* C23 as stated: the usage-cap check of a tick is applied to the foreground
\* sample whose usage that tick recorded: the process whose total is queried
\* is the one sampled by _poll.
C23_SameSample ==
  (Polled /\ obs.check.queried # NoName) => obs.check.queried = obs.fg1

\* C23, what the code does: the row is recorded for the sample taken by
\* _poll, the total is queried and the violation named for the sample taken
\* again by _check_violations.
C23_CapCheckOnSecondSample ==
  Polled =>
    /\ obs.recorded => Records(obs.fg1)
    /\ obs.check.queried # NoName =>
         obs.check.fg2_called /\ obs.check.queried = obs.check.fg2
    /\ obs.check.violation.kind = "UsageExceeded" =>
         obs.check.violation.name = obs.check.fg2

\* A tick records app.exe, whose total of the day is over the cap, and checks
\* the cap for another sample: no violation.
C23_Witness ==
  /\ Polled /\ obs.recorded /\ obs.fg1 = "app.exe"
  /\ obs.check.fg2_called /\ obs.check.queried = "Unknown"
  /\ ExactSum(usage_log, "app.exe", Date(now)) > config.max_usage_seconds
  /\ obs.check.violation = NoViolation

\* ------------------------------------------------- generate_scolding alone
\* The texts main.py passes to generate_scolding.
GeneratorInputs == {"", "curfew", "blacklist", "usage", "usage and summary"}

InitGenerator ==
  /\ config = AppConfig(<<>>, 3600, 21600, 7200, TRUE)
  /\ usage_log = <<>>
  /\ client_ok \in BOOLEAN
  /\ now = Boot
  /\ overlay_active = FALSE
  /\ last_intervention_time = NoTime
  /\ fallback_index = 0
  /\ overlay = OverlayInit
  /\ pending_shows = 0
  /\ obs = Idle

\* generate_scolding(usage_log) is called; obs.shown keeps the fallback
\* messages returned so far, in order.
CallGenerateScolding ==
  \E text \in GeneratorInputs, chat \in ChatAnswers(TRUE) :
    /\ UsesFallback(chat) => fallback_index < MaxFallbacks
    /\ fallback_index' =
         IF UsesFallback(chat) THEN fallback_index + 1 ELSE fallback_index
    /\ obs' = [Idle EXCEPT !.op = "generate_scolding", !.arg = text,
                           !.chat = IF client_ok THEN chat ELSE "<unused>",
                           !.used_fallback = UsesFallback(chat),
                           !.scolding = GenerateScolding(chat),
                           !.shown = IF UsesFallback(chat)
                                     THEN Append(obs.shown,
                                                 GenerateScolding(chat))
                                     ELSE obs.shown]
    /\ UNCHANGED <<config, now, overlay_active, last_intervention_time,
                   usage_log, client_ok, overlay, pending_shows>>

NextGenerator == CallGenerateScolding

SpecGenerator == InitGenerator /\ [][NextGenerator]_vars

\* C24: there are five built-in messages, none empty; the k-th request
\* answered by the fallback (k from 0) returns entry k mod 5 of them, so two
\* consecutive fallbacks differ; a request answered by the generator returns
\* the generator's text and leaves the rotation where it was.
C24_FallbackRotation ==
  /\ Len(FALLBACK_MESSAGES) = 5
  /\ \A k \in 1..Len(obs.shown) :
       /\ obs.shown[k] = FALLBACK_MESSAGES[((k - 1) % 5) + 1]
       /\ obs.shown[k] # ""
       /\ k > 1 => obs.shown[k] # obs.shown[k - 1]
  /\ Len(obs.shown) = fallback_index
  /\ obs.op = "generate_scolding" =>
       IF obs.used_fallback
       THEN obs.scolding = obs.shown[Len(obs.shown)]
       ELSE obs.scolding = "generated"

\* Five fallbacks have been returned, a request was then answered by the
\* generator, and the sixth fallback is the first entry again.
C24_Witness ==
  /\ client_ok /\ obs.op = "generate_scolding" /\ obs.chat = "generated"
  /\ ~obs.used_fallback /\ fallback_index = 6
  /\ obs.shown[5] = "fallback-4" /\ obs.shown[6] = "fallback-0"

\* C25 as stated: the overlay-active flag is set only while the overlay of
\* the current intervention is displayed (shown, and able to emit
\* overlay_closed): the coordinator is never Intervening with nothing on
\* screen.
C25_FlagImpliesOverlayShown ==
  overlay_active => (overlay.visible /\ pending_shows > 0)

\* C25, what the code does: the flag goes up only in a tick that triggers an
\* intervention, and the overlay is shown and locked by the same tick unless
\* the tick ended in _poll's except clause.
C25_FlagSetWithShowUnlessFault ==
  [][ (~overlay_active /\ overlay_active') =>
        \/ /\ obs'.op = "poll" /\ obs'.triggered
           /\ overlay'.visible /\ overlay'.is_locked
           /\ pending_shows' = pending_shows + 1
        \/ obs'.op = "poll_fault" ]_vars

\* The overlay of an intervention was shown, unlocked and closed by a close
\* event, which emits nothing: the flag is set, nothing is displayed, and a
\* tick is skipped.
C25_Witness ==
  /\ Polled /\ obs.skipped
  /\ overlay_active /\ ~overlay.visible /\ pending_shows > 0

\* --------------------------------------- an installation with two entries
\* Both blacklist entries can be running at once, and neither is protected.
InitTermination ==
  /\ config = AppConfig(<<"chrome.exe", "APP.EXE">>, 3600, 21600, 7200, TRUE)
  /\ usage_log = <<>>
  /\ client_ok = FALSE
  /\ now = Boot
  /\ overlay_active = FALSE
  /\ last_intervention_time = NoTime
  /\ fallback_index = 0
  /\ overlay = OverlayInit
  /\ pending_shows = 0
  /\ obs = Idle

SpecTermination == InitTermination /\ [][Next]_vars

\* A tick, whether or not it ended in _poll's except clause.
Ticked == obs.op \in {"poll", "poll_fault"}

\* C26: a tick calls kill_process at most once, and exactly when it returns a
\* Blacklist violation: never when it is skipped, suppressed by the cooldown,
\* or ends with Curfew, UsageExceeded or no violation.  The name passed is
\* the first blacklist entry, in blacklist order, that equals a listed
\* process up to case; taskkill.exe runs for no other name.
C26_TerminationOnlyFirstBlacklisted ==
  Ticked =>
    /\ obs.check.kill # NoName <=> obs.check.violation.kind = "Blacklist"
    /\ obs.check.taskkill => obs.check.kill # NoName
    /\ obs.check.kill_result => obs.check.taskkill
    /\ (obs.skipped \/ obs.check.suppressed \/ ~obs.check.listed) =>
         obs.check.kill = NoName
    /\ obs.check.kill # NoName =>
         \E i \in 1..Len(config.blacklist) :
           /\ obs.check.kill = config.blacklist[i]
           /\ \E p \in obs.check.running : Lower(p) = Lower(obs.check.kill)
           /\ \A j \in 1..(i - 1) :
                \A p \in obs.check.running :
                  Lower(p) # Lower(config.blacklist[j])

\* chrome.exe and app.exe are both blacklisted and both running: taskkill
\* runs for chrome.exe, the first entry.
C26_Witness ==
  /\ Polled /\ config.blacklist = <<"chrome.exe", "APP.EXE">>
  /\ obs.check.running = {"app.exe", "Chrome.EXE"}
  /\ obs.check.kill = "chrome.exe" /\ obs.check.taskkill
  /\ obs.check.violation = BlacklistViolation("chrome.exe")

\* C27: _last_intervention_time is written only by a tick that triggers an
\* intervention, with the instant of the trigger; a dismissal and a tick that
\* triggers nothing leave it as it was; and the value written is at least
\* intervention_cooldown (60 s) after the value it replaces.
C27_InterventionTimeFrame ==
  [][ /\ last_intervention_time' # last_intervention_time =>
           /\ obs'.op \in {"poll", "poll_fault"} /\ obs'.triggered
           /\ last_intervention_time' = now'
           /\ last_intervention_time # NoTime =>
                last_intervention_time' - last_intervention_time
                  >= intervention_cooldown
      /\ obs'.op = "overlay_closed" =>
           last_intervention_time' = last_intervention_time
      /\ (obs'.op \in {"poll", "poll_fault"} /\ ~obs'.triggered) =>
           last_intervention_time' = last_intervention_time ]_vars

\* A second intervention starts 60 s after the first, whose overlay was
\* dismissed in between: less than 60 s lie between that dismissal and the
\* second start.
C27_Witness ==
  /\ Polled /\ obs.triggered /\ ~client_ok /\ fallback_index = 2
  /\ pending_shows = 1
  /\ last_intervention_time = Boot + intervention_cooldown

\* C28 as stated: a Monitoring tick whose foreground sample is named, and
\* not Unknown, appends exactly one row of poll_interval seconds for that
\* process, every other tick appends nothing, and the total the tick
\* evaluates is the total of that process with the new row in it.
C28_EveryNamedSampleRecorded ==
  [][ (obs'.op = "poll" /\ ~obs'.skipped) =>
        /\ usage_log' =
             IF obs'.fg1 \notin {NoName, "", "Unknown"}
             THEN Append(usage_log,
                         [date |-> Date(now), process_name |-> obs'.fg1,
                          duration_sec |-> config.poll_interval])
             ELSE usage_log
        /\ obs'.check.queried # NoName =>
             obs'.check.usage = ExactSum(usage_log', obs'.fg1, Date(now))
    ]_vars

\* C28, amended: a tick appends one row, of poll_interval seconds, dated
\* today and named as the sample of _poll, exactly when it is not skipped,
\* that sample is named and not Unknown, the write meets no storage error
\* and record_usage does not raise; it does so whether or not the cooldown
\* suppresses the evaluation; any other tick leaves the table as it was.
\* The total a tick evaluates is read after the row is written: when the
\* query is answered it is the exact sum, over the table with the new row,
\* of the rows of the process sampled by _check_violations on the day of the
\* query.
C28_RecordedUnlessWriteFails ==
  [][ obs'.op \in {"poll", "poll_fault"} =>
        LET stored == /\ ~obs'.skipped
                      /\ obs'.fg1 \notin {NoName, "", "Unknown"}
                      /\ ~obs'.write_error /\ obs'.fault # "record"
        IN /\ usage_log' =
                IF stored
                THEN Append(usage_log,
                            [date |-> Date(now), process_name |-> obs'.fg1,
                             duration_sec |-> config.poll_interval])
                ELSE usage_log
           /\ obs'.recorded <=> stored
           /\ (obs'.check.queried # NoName /\ ~obs'.check.read_error) =>
                obs'.check.usage =
                  ExactSum(usage_log', obs'.check.queried, Date(now'))
    ]_vars

\* A tick adds 5 s to app.exe, which stood at 7295 s, and evaluates 7300 s,
\* over the cap of 7200 s.
C28_Witness ==
  /\ Polled /\ obs.recorded /\ obs.fg1 = "app.exe"
  /\ obs.check.queried = "app.exe" /\ obs.check.usage = 7300
  /\ Len(usage_log) = 2 /\ usage_log[2].duration_sec = config.poll_interval
  /\ obs.check.violation.kind = "UsageExceeded"

====
